---- MODULE Spec2Model ----
(***************************************************************************)
(* Northern Ireland disease prevalence dashboard.                          *)
(*                                                                         *)
(* Two programs are modelled:                                              *)
(*   - the dashboard script (d3, browser): condition selector, score       *)
(*     cards, paginated table, Voronoi map and legend;                     *)
(*   - the R pre-computation script that emits ni_prevalence_data.json.    *)
(*                                                                         *)
(* Spec           the dashboard, driven by user events                     *)
(* SpecHeaders    the R script's header normalisation                      *)
(* SpecAggregate  the R script's aggregation and practice directory        *)
(***************************************************************************)
EXTENDS Integers, Sequences, FiniteSets, TLC

VARIABLES
    \* ---- dashboard ----
    phase,            \* "Uninitialized" until d3.json resolves, then "Selected"
    data,             \* the loaded interchange document
    conditions,       \* Object.keys(data.condition_data).sort()
    selected,         \* value of #condition-select
    currentTableData, \* sorted feature list
    currentPage,      \* 1-based page cursor
    cards,            \* texts of #card-total, #card-prev, #card-prev50
    tbody,            \* rows of #data-table tbody, top to bottom (bound datum)
    pagination,       \* children of #pagination, left to right
    mapCells,         \* Voronoi paths in #map
    hull,             \* TRUE when the hull outline path is in #map
    legend,           \* children of #legend
    tooltips,         \* number of div.tooltip elements in body (saturating)
    tooltip,          \* the div.tooltip the handlers of the drawn cells write to
    staleVisible,     \* a div.tooltip of an earlier render has opacity 1
    event,            \* the handler that ran last
    \* ---- dashboard, inside one call of updateDashboard ----
    pc,               \* the statement group updateDashboard executes next
    features,         \* the local const features
    order,            \* statement groups the running call has executed
    \* ---- R script, header normalisation ----
    hpc,              \* position in the header part of the script
    header_rows,      \* rows 5 and 6 of the sheet, one pair of cells per column
    colnames,         \* colnames(prevalence_df)
    keptCols,         \* physical columns still in prevalence_df
    roles,            \* patient_cols, prev_cols, subset_cols
    \* ---- R script, aggregation ----
    apc,              \* position in the aggregation part of the script
    prevalence_df,    \* filtered rows of Table 5a
    practice_details, \* rows of Table 4
    todo,             \* base names the outer loop has still to visit
    condition_data,   \* output list
    condition_totals, \* output list
    practice_info,    \* output list
    output            \* the object written to ni_prevalence_data.json

dashVars == <<phase, data, conditions, selected, currentTableData, currentPage,
              cards, tbody, pagination, mapCells, hull, legend, tooltips, tooltip,
              staleVisible, event>>
stepVars == <<pc, features, order>>
headVars == <<hpc, header_rows, colnames, keptCols, roles>>
aggVars  == <<apc, prevalence_df, practice_details, todo, condition_data,
              condition_totals, practice_info, output>>
vars == <<dashVars, stepVars, headVars, aggVars>>

\* ------------------------------------------------------------------------
\* Bounds of the model
\* ------------------------------------------------------------------------
NumPractices  == 23   \* practices in the loaded document
NumConditions == 2    \* conditions in the loaded document
MaxTooltips   == 2    \* tooltips counts 0, 1, ..., "MaxTooltips or more"

\* ------------------------------------------------------------------------
\* JavaScript values
\* ------------------------------------------------------------------------
Null      == [t |-> "null"]
Undefined == [t |-> "undefined"]
NaN       == [t |-> "NaN"]
Num(n)    == [t |-> "number", v |-> n]

\* unary plus: +null is 0, +undefined is NaN, a number is itself
ToNumber(x) ==
    IF x.t = "number" THEN x
    ELSE IF x.t = "null" THEN Num(0)
    ELSE NaN

isNaN(x) == ToNumber(x).t = "NaN"

\* d3.format(','), d3.format('.2f'): the value is coerced with unary plus and
\* then printed; the text is modelled by the number it prints
formatNumber(x)  == [fmt |-> ",", of |-> ToNumber(x)]
formatDecimal(x) == [fmt |-> ".2f", of |-> ToNumber(x)]

pageSize == 10

Min(a, b) == IF a < b THEN a ELSE b
Max(a, b) == IF a > b THEN a ELSE b

\* ascending sequence of a finite set of integers
RECURSIVE SortedSeq(_)
SortedSeq(S) ==
    IF S = {} THEN <<>>
    ELSE LET m == CHOOSE x \in S : \A y \in S : x <= y
         IN  <<m>> \o SortedSeq(S \ {m})

\* Object.entries / Object.keys of an object whose keys are integer-like:
\* ascending numeric order
ObjectKeys(obj) == SortedSeq(DOMAIN obj)

\* ------------------------------------------------------------------------
\* The loaded document (ni_prevalence_data.json)
\*
\* Practice ids are 1..NumPractices, condition names are 1..NumConditions
\* (their numeric order stands for the lexicographic order of the names).
\* Each condition's mapping is one of five shapes: no practice; three
\* practices with counts 50, 50, 30; the first pageSize practices; three
\* practices in four with counts that repeat; every practice.  Practice 1
\* may lack coordinates.
\* ------------------------------------------------------------------------
Pids == 1..NumPractices
ConditionNames == 1..NumConditions
Shapes == {"none", "ties", "ten", "mod", "asc"}
NullCandidates == {p \in Pids : p <= 1}

ShapeDomain(shape) ==
    CASE shape = "none" -> {}
      [] shape = "ties" -> {p \in Pids : p <= 3}
      [] shape = "ten"  -> {p \in Pids : p <= pageSize}
      [] shape = "mod"  -> {p \in Pids : p % 4 # 0}
      [] OTHER          -> Pids

ShapePatients(shape, p) ==
    CASE shape = "ties" -> IF p <= 2 THEN 50 ELSE 30
      [] shape = "mod"  -> 1 + (p % 3)
      [] OTHER          -> p

ShapeMetric(shape, p) ==
    [patients |-> ShapePatients(shape, p),
     prevalence_per_1000 |-> IF p % 5 = 0 THEN Null ELSE Num(2 * ShapePatients(shape, p) + 1),
     prevalence_over50_per_1000 |-> IF p % 2 = 0 THEN Null ELSE Num(ShapePatients(shape, p))]

RECURSIVE SumPatients(_, _)
SumPatients(m, S) ==
    IF S = {} THEN 0
    ELSE LET p == CHOOSE x \in S : TRUE
         IN  m[p].patients + SumPatients(m, S \ {p})

Document(shapeOf, nullSet) ==
    LET cd == [c \in ConditionNames |->
                 [p \in ShapeDomain(shapeOf[c]) |-> ShapeMetric(shapeOf[c], p)]]
    IN  [practice_info |->
            [p \in Pids |->
                [name |-> p,
                 latitude  |-> IF p \in nullSet THEN Null ELSE Num(54),
                 longitude |-> IF p \in nullSet THEN Null ELSE Num(-6)]],
         condition_totals |->
            [c \in ConditionNames |->
                [total_patients |-> Num(SumPatients(cd[c], DOMAIN cd[c])),
                 prevalence_per_1000 |-> Num(SumPatients(cd[c], DOMAIN cd[c])),
                 prevalence_over50_per_1000 |-> Null]],
         condition_data |-> cd]

Documents ==
    {Document(shapeOf, nullSet) :
        shapeOf \in [ConditionNames -> Shapes], nullSet \in SUBSET NullCandidates}

\* ------------------------------------------------------------------------
\* updateDashboard: feature derivation and sort
\* ------------------------------------------------------------------------
Feature(pid, info, condData) ==
    [id |-> pid,
     name |-> info.name,
     latitude |-> ToNumber(info.latitude),
     longitude |-> ToNumber(info.longitude),
     prevalence |-> condData.prevalence_per_1000,
     prevalence50 |-> condData.prevalence_over50_per_1000,
     patients |-> condData.patients]

\* the loop over Object.entries(data.practice_info)
RECURSIVE FeaturesLoop(_, _, _)
FeaturesLoop(doc, condition, entries) ==
    IF entries = <<>> THEN <<>>
    ELSE LET pid  == Head(entries)
             info == doc.practice_info[pid]
             rest == FeaturesLoop(doc, condition, Tail(entries))
         IN  IF pid \notin DOMAIN doc.condition_data[condition] THEN rest
             ELSE IF isNaN(info.latitude) \/ isNaN(info.longitude) THEN rest
             ELSE <<Feature(pid, info, doc.condition_data[condition][pid])>> \o rest

\* the same loop reading the first condition of the document whatever is selected
FeaturesOfFirstCondition(doc, condition) ==
    FeaturesLoop(doc, ObjectKeys(doc.condition_data)[1], ObjectKeys(doc.practice_info))

Features(doc, condition) ==
    FeaturesLoop(doc, condition, ObjectKeys(doc.practice_info))

descending(a, b) == IF b < a THEN -1 ELSE IF b > a THEN 1 ELSE 0

\* Array.prototype.sort is stable: an element goes after every element the
\* comparator does not order after it
RECURSIVE SortByPatients(_)
SortByPatients(s) ==
    IF s = <<>> THEN <<>>
    ELSE LET front == SortByPatients(SubSeq(s, 1, Len(s) - 1))
             f     == s[Len(s)]
             k     == Cardinality({i \in 1..Len(front) :
                                     descending(front[i].patients, f.patients) <= 0})
         IN  SubSeq(front, 1, k) \o <<f>> \o SubSeq(front, k + 1, Len(front))

\* ------------------------------------------------------------------------
\* updateTable
\* ------------------------------------------------------------------------
\* currentTableData.slice(start, end)
SliceFrom(tableData, start) ==
    SubSeq(tableData, start + 1, Min(start + pageSize, Len(tableData)))

\* the slice taken with a 0-based page number
PageDataOffByOne(tableData, page) == SliceFrom(tableData, page * pageSize)

PageData(tableData, page) == SliceFrom(tableData, (page - 1) * pageSize)

RowIds(rows) == {rows[i].id : i \in 1..Len(rows)}

DatumById(rows, id) == rows[CHOOSE i \in 1..Len(rows) : rows[i].id = id]

\* parent.insertBefore(node, next): next is the row keyed nextId, or null (0)
InsertBefore(dom, node, nextId) ==
    IF nextId = 0 THEN Append(dom, node)
    ELSE LET k == CHOOSE i \in 1..Len(dom) : dom[i].id = nextId
         IN  SubSeq(dom, 1, k - 1) \o <<node>> \o SubSeq(dom, k, Len(dom))

\* the update node that follows data index i (enter._next), 0 when there is none
NextUpdate(pageData, oldIds, i) ==
    LET later == {j \in (i + 1)..Len(pageData) : pageData[j].id \in oldIds}
    IN  IF later = {} THEN 0
        ELSE pageData[CHOOSE j \in later : \A k \in later : j <= k].id

\* rows.enter().append('tr'), in data order
RECURSIVE AppendEntered(_, _, _, _)
AppendEntered(dom, pageData, oldIds, i) ==
    IF i > Len(pageData) THEN dom
    ELSE IF pageData[i].id \in oldIds
         THEN AppendEntered(dom, pageData, oldIds, i + 1)
         ELSE AppendEntered(InsertBefore(dom, pageData[i], NextUpdate(pageData, oldIds, i)),
                            pageData, oldIds, i + 1)

\* tbody.selectAll('tr').data(pageData, d => d.id); exit removed, enter
\* appended, update rows keep their place and take the new datum
JoinRows(old, pageData) ==
    LET oldIds  == RowIds(old)
        newIds  == RowIds(pageData)
        stay    == SelectSeq(old, LAMBDA r : r.id \in newIds)
        updated == [i \in 1..Len(stay) |-> DatumById(pageData, stay[i].id)]
    IN  AppendEntered(updated, pageData, oldIds, 1)

updateTable(rows, tableData, page) == JoinRows(rows, PageData(tableData, page))

\* ------------------------------------------------------------------------
\* renderPagination
\* ------------------------------------------------------------------------
\* Math.ceil(length / pageSize)
TotalPages(tableData) == (Len(tableData) + pageSize - 1) \div pageSize

renderPagination(tableData, page) ==
    LET totalPages == TotalPages(tableData)
    IN  IF totalPages <= 1 THEN <<>>
        ELSE <<[kind |-> "Prev", disabled |-> (page = 1)]>>
             \o [p \in 1..totalPages |-> [kind |-> "page", p |-> p, active |-> (p = page)]]
             \o <<[kind |-> "Next", disabled |-> (page = totalPages),
                   totalPages |-> totalPages]>>

\* ------------------------------------------------------------------------
\* updateMap
\* ------------------------------------------------------------------------
PaletteSize == 7

\* ascending sort of a sequence of integers (scaleQuantile sorts its domain)
RECURSIVE SortAscending(_)
SortAscending(s) ==
    IF s = <<>> THEN <<>>
    ELSE LET front == SortAscending(SubSeq(s, 1, Len(s) - 1))
             x     == s[Len(s)]
             k     == Cardinality({i \in 1..Len(front) : front[i] <= x})
         IN  SubSeq(front, 1, k) \o <<x>> \o SubSeq(front, k + 1, Len(front))

\* scaleQuantile().domain(values): null and NaN are dropped, the rest sorted
QuantileDomain(values) ==
    LET nums == SelectSeq(values, LAMBDA x : x.t = "number")
    IN  SortAscending([i \in 1..Len(nums) |-> nums[i].v])

\* quantileSorted(domain, i / PaletteSize), multiplied by PaletteSize so that
\* the interpolation stays in the integers; undefined on an empty domain
Quantile(domain, i) ==
    LET n  == Len(domain)
        h  == (n - 1) * i
        i0 == h \div PaletteSize
    IN  IF n = 0 THEN Undefined
        ELSE IF n < 2 THEN Num(PaletteSize * domain[1])
        ELSE Num(PaletteSize * domain[i0 + 1]
                 + (domain[i0 + 2] - domain[i0 + 1]) * (h % PaletteSize))

\* colourScale(x): index into the palette, bisectRight over the thresholds
colourScale(domain, x) ==
    IF isNaN(x) \/ x.t = "null" THEN Undefined
    ELSE Num(Cardinality({i \in 1..(PaletteSize - 1) :
                            Quantile(domain, i).v <= PaletteSize * x.v}))

\* d3.min / d3.max of the prevalence values, in the same unit as Quantile
ScaledMin(domain) ==
    IF domain = <<>> THEN Undefined ELSE Num(PaletteSize * domain[1])
ScaledMax(domain) ==
    IF domain = <<>> THEN Undefined ELSE Num(PaletteSize * domain[Len(domain)])

LegendBins(domain) ==
    [k \in 1..PaletteSize |->
        [colour |-> k - 1,
         min |-> formatDecimal(IF k = 1 THEN ScaledMin(domain) ELSE Quantile(domain, k - 1)),
         max |-> formatDecimal(IF k < PaletteSize THEN Quantile(domain, k)
                               ELSE ScaledMax(domain))]]

MapCells(pointsData) ==
    LET domain == QuantileDomain([i \in 1..Len(pointsData) |-> pointsData[i].prevalence])
    IN  [i \in 1..Len(pointsData) |->
            [d |-> pointsData[i], fill |-> colourScale(domain, pointsData[i].prevalence)]]

\* d3.polygonHull is null below three points
HullDrawn(pointsData) == Len(pointsData) >= 3

\* no cell of #map has a handler that writes to a tooltip
NoTooltip == [attached |-> FALSE, opacity |-> 0, html |-> <<>>]

\* svg.selectAll('*').remove() drops the cells and with them the handlers of
\* the tooltip of the previous render; its div stays in body as it was
updateMap(pointsData) ==
    /\ mapCells' = MapCells(pointsData)
    /\ staleVisible' = (staleVisible \/ tooltip.opacity = 1)
    /\ IF Len(pointsData) = 0
       THEN /\ hull' = FALSE
            /\ tooltip' = NoTooltip
            /\ UNCHANGED <<legend, tooltips>>
       ELSE /\ hull' = HullDrawn(pointsData)
            /\ tooltips' = Min(tooltips + 1, MaxTooltips)
            /\ tooltip' = [attached |-> TRUE, opacity |-> 0, html |-> <<>>]
            /\ legend' = LegendBins(
                   QuantileDomain([i \in 1..Len(pointsData) |-> pointsData[i].prevalence]))

\* ------------------------------------------------------------------------
\* updateDashboard
\* ------------------------------------------------------------------------
ScoreCards(totals) ==
    [total  |-> formatNumber(totals.total_patients),
     prev   |-> formatDecimal(totals.prevalence_per_1000),
     prev50 |-> formatDecimal(totals.prevalence_over50_per_1000)]

updateDashboard(doc, condition) ==
    LET list   == Features(doc, condition)
        sorted == SortByPatients(list)
    IN  /\ cards' = ScoreCards(doc.condition_totals[condition])
        /\ currentTableData' = sorted
        /\ currentPage' = 1
        /\ tbody' = updateTable(tbody, sorted, 1)
        /\ pagination' = renderPagination(sorted, 1)
        /\ updateMap(list)

\* ------------------------------------------------------------------------
\* Events of the dashboard
\* ------------------------------------------------------------------------
\* d3.json(...).then(data => ...): options, initial selection, first render
Load ==
    /\ phase = "Uninitialized"
    /\ phase' = "Selected"
    /\ conditions' = ObjectKeys(data.condition_data)
    /\ selected' = ObjectKeys(data.condition_data)[1]
    /\ updateDashboard(data, ObjectKeys(data.condition_data)[1])
    /\ event' = "load"
    /\ UNCHANGED data

\* select.on('change', ...)
ChangeCondition(cond) ==
    /\ phase = "Selected"
    /\ selected' = cond
    /\ updateDashboard(data, cond)
    /\ event' = "change"
    /\ UNCHANGED <<phase, data, conditions>>

PrevPage(page) == IF page > 1 THEN page - 1 ELSE page

\* the Next handler without its test against totalPages
NextPageUnguarded(page, totalPages) == page + 1

NextPage(page, totalPages) == IF page < totalPages THEN page + 1 ELSE page

\* a click handler that also redraws the map from the table data
RepaginateAndRedrawMap(page) ==
    /\ currentPage' = page
    /\ tbody' = updateTable(tbody, currentTableData, page)
    /\ pagination' = renderPagination(currentTableData, page)
    /\ updateMap(currentTableData)
    /\ UNCHANGED <<currentTableData, cards>>

\* the body shared by the three click handlers once currentPage is assigned:
\* updateTable(); renderPagination(); and nothing else
Repaginate(page) ==
    /\ currentPage' = page
    /\ tbody' = updateTable(tbody, currentTableData, page)
    /\ pagination' = renderPagination(currentTableData, page)
    /\ UNCHANGED <<currentTableData, cards, mapCells, hull, legend, tooltips, tooltip, staleVisible>>

\* a click whose guard fails: the handler returns without a statement
NoNavigation ==
    UNCHANGED <<currentPage, tbody, pagination, currentTableData, cards, mapCells,
                hull, legend, tooltips, tooltip, staleVisible>>

Control(kind) == {i \in 1..Len(pagination) : pagination[i].kind = kind}

ClickPrev ==
    /\ \E i \in Control("Prev") :
         IF PrevPage(currentPage) # currentPage
         THEN Repaginate(PrevPage(currentPage))
         ELSE NoNavigation
    /\ event' = "prev"
    /\ UNCHANGED <<phase, data, conditions, selected>>

ClickNext ==
    /\ \E i \in Control("Next") :
         LET next == NextPage(currentPage, pagination[i].totalPages)
         IN  IF next # currentPage
             THEN Repaginate(next)
             ELSE NoNavigation
    /\ event' = "next"
    /\ UNCHANGED <<phase, data, conditions, selected>>

ClickPage ==
    /\ \E i \in Control("page") : Repaginate(pagination[i].p)
    /\ event' = "page"
    /\ UNCHANGED <<phase, data, conditions, selected>>

\* ------------------------------------------------------------------------
\* Specification of the dashboard
\* ------------------------------------------------------------------------
\* no call of updateDashboard is running
StepIdle ==
    /\ pc = "idle"
    /\ features = <<>>
    /\ order = <<>>

HeadIdle ==
    /\ hpc = "idle"
    /\ header_rows = <<>>
    /\ colnames = <<>>
    /\ keptCols = <<>>
    /\ roles = <<>>

AggIdle ==
    /\ apc = "idle"
    /\ prevalence_df = <<>>
    /\ practice_details = <<>>
    /\ todo = <<>>
    /\ condition_data = <<>>
    /\ condition_totals = <<>>
    /\ practice_info = <<>>
    /\ output = <<>>

DashIdle ==
    /\ phase = "idle"
    /\ data = <<>>
    /\ conditions = <<>>
    /\ selected = 0
    /\ currentTableData = <<>>
    /\ currentPage = 1
    /\ cards = <<>>
    /\ tbody = <<>>
    /\ pagination = <<>>
    /\ mapCells = <<>>
    /\ hull = FALSE
    /\ legend = <<>>
    /\ tooltips = 0
    /\ tooltip = NoTooltip
    /\ staleVisible = FALSE
    /\ event = "none"
    /\ StepIdle

Init ==
    /\ phase = "Uninitialized"
    /\ data \in Documents
    /\ conditions = <<>>
    /\ selected = 0
    /\ currentTableData = <<>>
    /\ currentPage = 1
    /\ cards = <<>>
    /\ tbody = <<>>
    /\ pagination = <<>>
    /\ mapCells = <<>>
    /\ hull = FALSE
    /\ legend = <<>>
    /\ tooltips = 0
    /\ tooltip = NoTooltip
    /\ staleVisible = FALSE
    /\ event = "none"
    /\ StepIdle
    /\ HeadIdle
    /\ AggIdle

Next ==
    \/ /\ Load
       /\ UNCHANGED <<stepVars, headVars, aggVars>>
    \/ /\ \E i \in 1..Len(conditions) : ChangeCondition(conditions[i])
       /\ UNCHANGED <<stepVars, headVars, aggVars>>
    \/ /\ ClickPrev
       /\ UNCHANGED <<stepVars, headVars, aggVars>>
    \/ /\ ClickNext
       /\ UNCHANGED <<stepVars, headVars, aggVars>>
    \/ /\ ClickPage
       /\ UNCHANGED <<stepVars, headVars, aggVars>>

Spec == Init /\ [][Next]_vars

\* ------------------------------------------------------------------------
\* Pointer events over the cells of the map
\* ------------------------------------------------------------------------
\* .on('mousemove', (event, d) => tooltip.style('opacity', 1)....html(...d...))
MouseMove(i) ==
    /\ phase = "Selected"
    /\ i \in 1..Len(mapCells)
    /\ tooltip' = [attached |-> TRUE, opacity |-> 1, html |-> <<mapCells[i].d>>]
    /\ event' = "mousemove"
    /\ UNCHANGED <<phase, data, conditions, selected, currentTableData, currentPage,
                   cards, tbody, pagination, mapCells, hull, legend, tooltips,
                   staleVisible>>

\* .on('mouseout', () => tooltip.style('opacity', 0))
MouseOut ==
    /\ phase = "Selected"
    /\ mapCells # <<>>
    /\ tooltip' = [tooltip EXCEPT !.opacity = 0]
    /\ event' = "mouseout"
    /\ UNCHANGED <<phase, data, conditions, selected, currentTableData, currentPage,
                   cards, tbody, pagination, mapCells, hull, legend, tooltips,
                   staleVisible>>

NextPointer ==
    \/ /\ Load
       /\ UNCHANGED <<stepVars, headVars, aggVars>>
    \/ /\ \E i \in 1..Len(conditions) : ChangeCondition(conditions[i])
       /\ UNCHANGED <<stepVars, headVars, aggVars>>
    \/ /\ \E i \in 1..Len(mapCells) : MouseMove(i)
       /\ UNCHANGED <<stepVars, headVars, aggVars>>
    \/ /\ MouseOut
       /\ UNCHANGED <<stepVars, headVars, aggVars>>

SpecPointer == Init /\ [][NextPointer]_vars

\* C14: at most one tooltip element exists, a visible tooltip describes a
\* feature of the drawn map, and after a condition change no tooltip of an
\* earlier render remains, visible or hidden.
C14_OneTooltipOfCurrentRender ==
    /\ tooltips <= 1
    /\ ~staleVisible
    /\ tooltip.opacity = 1 =>
           \E i \in 1..Len(mapCells) : tooltip.html = <<mapCells[i].d>>
    /\ event = "change" => tooltips = (IF tooltip.attached THEN 1 ELSE 0)

\* ------------------------------------------------------------------------
\* Frame of the page-navigation handlers
\* ------------------------------------------------------------------------
PageNavigation == event' \in {"prev", "next", "page"}

C13_NavigationStep ==
    PageNavigation =>
        UNCHANGED <<phase, data, conditions, selected, currentTableData, cards,
                    mapCells, hull, legend, tooltips, tooltip, staleVisible>>

\* C13: a Prev, Next or page-number click changes only currentPage, the table
\* rows and the pagination controls; the selected condition, currentTableData,
\* the score cards, the map cells, the hull and the legend stay as they were.
C13_NavigationChangesOnlyPageTablePagination == [][C13_NavigationStep]_vars

\* a page click has moved the cursor and redrawn rows and controls over a
\* drawn map
C13_Witness ==
    /\ event = "page"
    /\ currentPage = 2
    /\ RowIds(tbody) = RowIds(PageData(currentTableData, 2))
    /\ mapCells # <<>>
    /\ legend # <<>>

\* ------------------------------------------------------------------------
\* updateDashboard statement by statement
\* ------------------------------------------------------------------------
FirstStep == "cards"

\* the statements of updateDashboard with table and pagination exchanged
NextStepPaginationFirst(step) ==
    CASE step = "cards"      -> "features"
      [] step = "features"   -> "sort"
      [] step = "sort"       -> "page"
      [] step = "page"       -> "pagination"
      [] step = "pagination" -> "table"
      [] step = "table"      -> "map"
      [] step = "map"        -> "idle"

\* textual order of the statement groups of updateDashboard
NextStep(step) ==
    CASE step = "cards"      -> "features"
      [] step = "features"   -> "sort"
      [] step = "sort"       -> "page"
      [] step = "page"       -> "table"
      [] step = "table"      -> "pagination"
      [] step = "pagination" -> "map"
      [] step = "map"        -> "idle"

\* control moves past the statement group at pc
Advance ==
    /\ pc' = NextStep(pc)
    /\ order' = Append(order, pc)

\* the promise callback up to its call of updateDashboard
BeginLoad ==
    /\ phase = "Uninitialized"
    /\ pc = "idle"
    /\ phase' = "Selected"
    /\ conditions' = ObjectKeys(data.condition_data)
    /\ selected' = ObjectKeys(data.condition_data)[1]
    /\ event' = "load"
    /\ pc' = FirstStep
    /\ order' = <<>>
    /\ UNCHANGED <<data, currentTableData, currentPage, cards, tbody, pagination,
                   mapCells, hull, legend, tooltips, tooltip, staleVisible, features>>

\* the change handler up to its call of updateDashboard
BeginChange(cond) ==
    /\ phase = "Selected"
    /\ pc = "idle"
    /\ selected' = cond
    /\ event' = "change"
    /\ pc' = FirstStep
    /\ order' = <<>>
    /\ UNCHANGED <<phase, data, conditions, currentTableData, currentPage, cards,
                   tbody, pagination, mapCells, hull, legend, tooltips, tooltip, staleVisible, features>>

StepCards ==
    /\ pc = "cards"
    /\ cards' = ScoreCards(data.condition_totals[selected])
    /\ Advance
    /\ UNCHANGED <<phase, data, conditions, selected, currentTableData, currentPage,
                   tbody, pagination, mapCells, hull, legend, tooltips, tooltip, staleVisible, event,
                   features>>

StepFeatures ==
    /\ pc = "features"
    /\ features' = Features(data, selected)
    /\ Advance
    /\ UNCHANGED dashVars

StepSort ==
    /\ pc = "sort"
    /\ currentTableData' = SortByPatients(features)
    /\ Advance
    /\ UNCHANGED <<phase, data, conditions, selected, currentPage, cards, tbody,
                   pagination, mapCells, hull, legend, tooltips, tooltip, staleVisible, event, features>>

StepPage ==
    /\ pc = "page"
    /\ currentPage' = 1
    /\ Advance
    /\ UNCHANGED <<phase, data, conditions, selected, currentTableData, cards,
                   tbody, pagination, mapCells, hull, legend, tooltips, tooltip, staleVisible, event,
                   features>>

StepTable ==
    /\ pc = "table"
    /\ tbody' = updateTable(tbody, currentTableData, currentPage)
    /\ Advance
    /\ UNCHANGED <<phase, data, conditions, selected, currentTableData,
                   currentPage, cards, pagination, mapCells, hull, legend,
                   tooltips, tooltip, staleVisible, event, features>>

StepPagination ==
    /\ pc = "pagination"
    /\ pagination' = renderPagination(currentTableData, currentPage)
    /\ Advance
    /\ UNCHANGED <<phase, data, conditions, selected, currentTableData,
                   currentPage, cards, tbody, mapCells, hull, legend, tooltips, tooltip, staleVisible,
                   event, features>>

\* the last statement; features goes out of scope on return
StepMap ==
    /\ pc = "map"
    /\ updateMap(features)
    /\ Advance
    /\ features' = <<>>
    /\ UNCHANGED <<phase, data, conditions, selected, currentTableData,
                   currentPage, cards, tbody, pagination, event>>

NextSteps ==
    \/ /\ BeginLoad
       /\ UNCHANGED <<headVars, aggVars>>
    \/ /\ \E i \in 1..Len(conditions) : BeginChange(conditions[i])
       /\ UNCHANGED <<headVars, aggVars>>
    \/ /\ StepCards
       /\ UNCHANGED <<headVars, aggVars>>
    \/ /\ StepFeatures
       /\ UNCHANGED <<headVars, aggVars>>
    \/ /\ StepSort
       /\ UNCHANGED <<headVars, aggVars>>
    \/ /\ StepPage
       /\ UNCHANGED <<headVars, aggVars>>
    \/ /\ StepTable
       /\ UNCHANGED <<headVars, aggVars>>
    \/ /\ StepPagination
       /\ UNCHANGED <<headVars, aggVars>>
    \/ /\ StepMap
       /\ UNCHANGED <<headVars, aggVars>>
    \/ /\ pc = "idle"
       /\ ClickPrev
       /\ UNCHANGED <<stepVars, headVars, aggVars>>
    \/ /\ pc = "idle"
       /\ ClickNext
       /\ UNCHANGED <<stepVars, headVars, aggVars>>
    \/ /\ pc = "idle"
       /\ ClickPage
       /\ UNCHANGED <<stepVars, headVars, aggVars>>

\* events are dispatched one at a time: a click handler starts only when no
\* call of updateDashboard is running
SpecSteps == Init /\ [][NextSteps]_vars

\* ------------------------------------------------------------------------
\* Properties of one call of updateDashboard
\* ------------------------------------------------------------------------
ChangeHandled == pc = "idle" /\ event = "change"

\* C12 as stated: a change handler recomputes the feature list and resets
\* the page first and then renders cards, table, pagination and map.
C12_RecomputeBeforeCards ==
    ChangeHandled =>
        order = <<"features", "sort", "page", "cards", "table", "pagination", "map">>

\* the handler that started is the only one that acts until it returns
C12_RunsToCompletion ==
    pc # "idle" =>
        /\ event' = event
        /\ selected' = selected
        /\ pc' = NextStep(pc)

\* C12 (amended): a change handler renders the score cards first, then
\* recomputes the feature list and resets the page to 1, then renders table,
\* pagination and map in that order from the recomputed list, and no other
\* event is handled before it returns.
C12_CardsThenRecomputeThenRender ==
    /\ [](ChangeHandled =>
            order = <<"cards", "features", "sort", "page", "table", "pagination", "map">>)
    /\ [](pc \in {"table", "pagination", "map"} =>
            /\ features = Features(data, selected)
            /\ currentTableData = SortByPatients(features)
            /\ currentPage = 1)
    /\ [](pc \in {"features", "sort", "page"} =>
            cards = ScoreCards(data.condition_totals[selected]))
    /\ [][C12_RunsToCompletion]_vars

C12_Witness ==
    /\ ChangeHandled
    /\ Len(order) = 7
    /\ Len(currentTableData) > pageSize
    /\ mapCells # <<>>

\* ------------------------------------------------------------------------
\* Properties of the dashboard
\* ------------------------------------------------------------------------
\* least k with k * d >= n
CeilDiv(n, d) == CHOOSE k \in 0..n : k * d >= n /\ (k = 0 \/ (k - 1) * d < n)

HasCoordinates(info) == info.latitude.t = "number" /\ info.longitude.t = "number"

\* C1: after updateDashboard(C), a practice of practice_info is in the feature
\* list iff its latitude and longitude are non-null and condition_data[C]
\* has an entry for it.
C1_FeatureIffCoordinatesAndData ==
    phase = "Selected" =>
        \A p \in DOMAIN data.practice_info :
            (p \in RowIds(currentTableData)) <=>
                (/\ HasCoordinates(data.practice_info[p])
                 /\ p \in DOMAIN data.condition_data[selected])

\* C3: the page cursor stays within 1..max(1, ceiling(features / 10)), and
\* Prev on page 1 and Next on the last page leave cursor and table alone.
C3_BoundaryStep ==
    /\ (event' = "prev" /\ currentPage = 1) =>
           (currentPage' = currentPage /\ tbody' = tbody)
    /\ (event' = "next" /\ currentPage = CeilDiv(Len(currentTableData), pageSize)) =>
           (currentPage' = currentPage /\ tbody' = tbody)

C3_PageInRange ==
    /\ currentPage >= 1
    /\ currentPage <= Max(1, CeilDiv(Len(currentTableData), pageSize))

C3_PageStaysInRange == []C3_PageInRange /\ [][C3_BoundaryStep]_vars

C3_Witness ==
    /\ event = "next"
    /\ currentPage = 3
    /\ CeilDiv(Len(currentTableData), pageSize) = 3

\* the table data are the features of the selected condition, each once,
\* with that condition's patient counts
TableIsFeatureListOfSelected ==
    /\ RowIds(currentTableData) =
           {p \in DOMAIN data.practice_info :
                /\ p \in DOMAIN data.condition_data[selected]
                /\ ~isNaN(data.practice_info[p].latitude)
                /\ ~isNaN(data.practice_info[p].longitude)}
    /\ Cardinality(RowIds(currentTableData)) = Len(currentTableData)
    /\ \A i \in 1..Len(currentTableData) :
           currentTableData[i].patients =
               data.condition_data[selected][currentTableData[i].id].patients

C4_ChangeStep ==
    event' = "change" => (currentPage' = 1 /\ TableIsFeatureListOfSelected')

\* C4: a condition change leaves the cursor on page 1 and the table data
\* equal to the feature list of the newly selected condition.
C4_ChangeResetsPageAndTable == [][C4_ChangeStep]_vars

C4_Witness ==
    /\ event = "change"
    /\ selected = 2
    /\ currentPage = 1
    /\ Len(currentTableData) > pageSize
    /\ data.condition_data[1] # data.condition_data[2]

\* C5: with zero visible features the map holds no cell and no hull and the
\* legend holds no row.
C5_NothingRenderedWithoutFeatures ==
    (phase = "Selected" /\ Len(currentTableData) = 0) =>
        (mapCells = <<>> /\ hull = FALSE /\ legend = <<>>)

\* patient count descending, ties in the order of Object.entries
OrderedForTable(rows) ==
    \A i, j \in 1..Len(rows) :
        i < j => \/ rows[i].patients > rows[j].patients
                 \/ /\ rows[i].patients = rows[j].patients
                    /\ rows[i].id < rows[j].id

\* C6: the displayed rows, top to bottom, are the current page's slice of the
\* feature list ordered by patient count descending, ties in encounter order.
C6_RowsShowSortedSlice ==
    phase = "Selected" =>
        /\ OrderedForTable(currentTableData)
        /\ tbody = PageData(currentTableData, currentPage)

\* the sorted features at positions (k-1)*10+1 .. min(k*10, n)
PagePositions(n, k) == ((k - 1) * pageSize + 1)..Min(k * pageSize, n)

PageControls == SelectSeq(pagination, LAMBDA c : c.kind = "page")

\* C7: total pages = ceiling(n / 10); page k holds the sorted features at
\* positions (k-1)*10+1 .. min(k*10, n); the last page has n - 10*(pages-1)
\* rows; the displayed rows are those of the current page.
C7_PagesPartitionTable ==
    phase = "Selected" =>
        LET n     == Len(currentTableData)
            pages == CeilDiv(n, pageSize)
        IN  /\ TotalPages(currentTableData) = pages
            /\ Len(PageControls) = IF pages <= 1 THEN 0 ELSE pages
            /\ \A k \in 1..pages :
                   /\ Len(PageData(currentTableData, k)) = Cardinality(PagePositions(n, k))
                   /\ \A j \in 1..Len(PageData(currentTableData, k)) :
                          PageData(currentTableData, k)[j] =
                              currentTableData[(k - 1) * pageSize + j]
            /\ pages >= 1 =>
                   Len(PageData(currentTableData, pages)) = n - pageSize * (pages - 1)
            /\ RowIds(tbody) = {currentTableData[j].id : j \in PagePositions(n, currentPage)}
            /\ Len(tbody) = Cardinality(PagePositions(n, currentPage))

C7_Witness ==
    /\ phase = "Selected"
    /\ Len(currentTableData) = NumPractices
    /\ currentPage = 3
    /\ Len(tbody) = NumPractices - 2 * pageSize

\* ========================================================================
\* The R script: strings
\*
\* A string is a sequence of tokens; the token " " is white space, every
\* other token is a run of non-space characters (possibly with inner
\* spaces).  NA is R's missing value.
\* ========================================================================
NA == [na |-> TRUE]
Str(tokens) == [na |-> FALSE, s |-> tokens]

is_na(x) == x.na

RECURSIVE TrimLeft(_)
TrimLeft(t) == IF t # <<>> /\ Head(t) = " " THEN TrimLeft(Tail(t)) ELSE t

RECURSIVE TrimRight(_)
TrimRight(t) ==
    IF t # <<>> /\ t[Len(t)] = " " THEN TrimRight(SubSeq(t, 1, Len(t) - 1)) ELSE t

\* stringr::str_trim
str_trim(t) == TrimRight(TrimLeft(t))

\* str_detect(x, '^Unnamed')
StartsUnnamed(t) == t # <<>> /\ Head(t) = "Unnamed"

\* one header cell of collapse_headers: NA and placeholders become ''
HeaderPart(cell) ==
    IF is_na(cell) \/ StartsUnnamed(cell.s) THEN <<>> ELSE str_trim(cell.s)

\* the function collapse_headers applies to each column
CollapseColumn(col) ==
    LET a == HeaderPart(col[1])
        b == HeaderPart(col[2])
    IN  IF a # <<>> /\ b # <<>> THEN a \o <<"|">> \o b
        ELSE IF a # <<>> THEN a
        ELSE IF b # <<>> THEN b
        ELSE <<>>

collapse_headers(header_df) ==
    [j \in 1..Len(header_df) |-> CollapseColumn(header_df[j])]

\* base R duplicated(x): TRUE where an earlier element is equal
duplicated(x) == [j \in 1..Len(x) |-> \E i \in 1..(j - 1) : x[i] = x[j]]

\* positions selected by a logical index vector, in order
RECURSIVE Which(_, _)
Which(keep, j) ==
    IF j > Len(keep) THEN <<>>
    ELSE (IF keep[j] THEN <<j>> ELSE <<>>) \o Which(keep, j + 1)

\* ------------------------------------------------------------------------
\* Header normalisation (lines 60-75)
\* ------------------------------------------------------------------------
NumCols == 3   \* columns of the sheet

CategoryCells == {NA, Str(<<"Unnamed", ": 0">>), Str(<<"A">>), Str(<<" ", "A">>)}
RegisterCells == {NA, Str(<<" ">>), Str(<<"x">>), Str(<<"x", " ">>)}

InitHeaders ==
    /\ hpc = "read"
    /\ header_rows \in [1..NumCols -> CategoryCells \X RegisterCells]
    /\ colnames = [j \in 1..NumCols |-> <<"...", j>>]
    /\ keptCols = [j \in 1..NumCols |-> j]
    /\ roles = <<>>
    /\ DashIdle
    /\ AggIdle

\* colnames(prevalence_df) <- collapse_headers(header_rows)
SetColnames ==
    /\ hpc = "read"
    /\ hpc' = "named"
    /\ colnames' = collapse_headers(header_rows)
    /\ UNCHANGED <<header_rows, keptCols, roles>>

\* prevalence_df <- prevalence_df[, !duplicated(colnames(prevalence_df))]
DropDuplicateColumns ==
    /\ hpc = "named"
    /\ hpc' = "deduplicated"
    /\ LET first == Which([j \in 1..Len(colnames) |-> ~duplicated(colnames)[j]], 1)
       IN  /\ keptCols' = [k \in 1..Len(first) |-> keptCols[first[k]]]
           /\ colnames' = [k \in 1..Len(first) |-> colnames[first[k]]]
    /\ UNCHANGED <<header_rows, roles>>

NextHeaders ==
    \/ /\ SetColnames
       /\ UNCHANGED <<dashVars, stepVars, aggVars>>
    \/ /\ DropDuplicateColumns
       /\ UNCHANGED <<dashVars, stepVars, aggVars>>

SpecHeaders == InitHeaders /\ [][NextHeaders]_vars

\* ------------------------------------------------------------------------
\* Properties of the header normalisation
\* ------------------------------------------------------------------------
\* a cell with nothing but white space, a missing cell or a placeholder
EmptyCell(cell) ==
    \/ cell.na
    \/ \A i \in 1..Len(cell.s) : cell.s[i] = " "
    \/ (cell.s # <<>> /\ cell.s[1] = "Unnamed")

\* the cell without the white space around it
Trimmed(cell) == SelectSeq(cell.s, LAMBDA tok : tok # " ")

CanonicalKey(col) ==
    CASE ~EmptyCell(col[1]) /\ ~EmptyCell(col[2]) ->
             Trimmed(col[1]) \o <<"|">> \o Trimmed(col[2])
      [] ~EmptyCell(col[1]) /\ EmptyCell(col[2])  -> Trimmed(col[1])
      [] EmptyCell(col[1]) /\ ~EmptyCell(col[2])  -> Trimmed(col[2])
      [] OTHER -> <<>>

FirstOfNonEmptyKey(j) ==
    /\ CanonicalKey(header_rows[j]) # <<>>
    /\ \A i \in 1..(j - 1) : CanonicalKey(header_rows[i]) # CanonicalKey(header_rows[j])

\* C10: each column's key is a|b, a, b or empty by the emptiness of its two
\* trimmed cells; the kept columns are the first column of each non-empty
\* key, in original order; every column with an empty key is dropped.
C10_KeptColumnsAreFirstOfNonEmptyKeys ==
    hpc = "deduplicated" =>
        /\ \A k \in 1..Len(keptCols) : colnames[k] = CanonicalKey(header_rows[keptCols[k]])
        /\ \A k \in 1..(Len(keptCols) - 1) : keptCols[k] < keptCols[k + 1]
        /\ {keptCols[k] : k \in 1..Len(keptCols)} = {j \in 1..NumCols : FirstOfNonEmptyKey(j)}

\* ========================================================================
\* The R script: aggregation (lines 84-172), practice directory (lines
\* 180-214) and output (lines 217-224)
\* ========================================================================
\* R numeric values: NA or a number
RNum(n) == [na |-> FALSE, v |-> n]

IntegerMax == 2147483647

\* as.integer of a whole number: itself, NA beyond the integer range
as_integer(x) == IF is_na(x) \/ x.v > IntegerMax THEN NA ELSE x

NPR == "Number of patients on register"
PFL == "Prevalence per 1000 patients using full list"
PSS == "Prevalence per 1000 patients using subset of list"

\* tokens in which the text 'subset' / 'Prevalence' occurs
HasSubset(tok) == tok \in {PSS, "subset"}
HasPrevalence(tok) == tok \in {PFL, PSS, "Prevalence"}

\* names(prevalence_df) after normalisation
ColumnNames ==
    << <<"Practice Id">>, <<"Practice List Size">>,
       <<NPR, "|", "Stroke">>, <<NPR, "|", "Stroke", ".1">>,
       <<NPR, "|", "Asthma", " 17+">>,
       <<PFL, "|", "Stroke">>, <<PFL, "|", "Asthma", " 17+">>,
       <<PSS, "|", "Asthma", " 17+">> >>

\* str_detect(name, '^<category>\|')
StartsWithCategory(name, category) ==
    Len(name) >= 2 /\ name[1] = category /\ name[2] = "|"

\* lines 87-89 for a vector of column names
PatientCols(names) == SelectSeq(names, LAMBDA n : StartsWithCategory(n, NPR))
PrevCols(names)    == SelectSeq(names, LAMBDA n : StartsWithCategory(n, PFL))
SubsetCols(names)  ==
    SelectSeq(names,
              LAMBDA n : /\ \E i \in 1..Len(n) : HasSubset(n[i])
                         /\ \E i \in 1..Len(n) : HasPrevalence(n[i]))

patient_cols == PatientCols(ColumnNames)
prev_cols    == PrevCols(ColumnNames)
subset_cols  == SubsetCols(ColumnNames)

\* str_split(cn, '\\|')[[1]][2]: the piece after the first bar
SecondPiece(name) ==
    LET bars  == {i \in 1..Len(name) : name[i] = "|"}
        first == CHOOSE i \in bars : \A k \in bars : i <= k
        after == {i \in bars : i > first}
        stop  == IF after = {} THEN Len(name) + 1
                 ELSE CHOOSE i \in after : \A k \in after : i <= k
    IN  SubSeq(name, first + 1, stop - 1)

\* tokens matched by '\\.[0-9]+$' and by ' [0-9]+\\+$'
NumericSuffixes == {".1", ".2"}
AgeSuffixes == {" 17+", " 18+", " 50+"}

clean_register_name(x) ==
    LET x1 == IF x # <<>> /\ x[Len(x)] \in NumericSuffixes
              THEN SubSeq(x, 1, Len(x) - 1) ELSE x
        x2 == IF x1 # <<>> /\ x1[Len(x1)] \in AgeSuffixes
              THEN SubSeq(x1, 1, Len(x1) - 1) ELSE x1
    IN  str_trim(x2)

BaseName(cn) == clean_register_name(SecondPiece(cn))

\* unique(x): first occurrences, in order
unique(x) ==
    LET first == Which([j \in 1..Len(x) |-> ~duplicated(x)[j]], 1)
    IN  [k \in 1..Len(first) |-> x[first[k]]]

\* names(map)[map == base_name]
ColumnsOf(cols, base_name) == SelectSeq(cols, LAMBDA cn : BaseName(cn) = base_name)

\* sum(as.numeric(row[cols]), na.rm = TRUE)
RECURSIVE SumNaRm(_, _)
SumNaRm(row, cols) ==
    IF cols = <<>> THEN 0
    ELSE (IF is_na(row.cells[Head(cols)]) THEN 0 ELSE row.cells[Head(cols)].v)
         + SumNaRm(row, Tail(cols))

\* mean of the non-missing values, kept as sum and count; NA when none
MeanNaRm(row, cols) ==
    LET present == SelectSeq(cols, LAMBDA cn : ~is_na(row.cells[cn]))
    IN  IF present = <<>> THEN NA
        ELSE RNum([sum |-> SumNaRm(row, present), n |-> Len(present)])

\* m[[key]] <- value on a named list
Assign(m, key, value) ==
    [k \in (DOMAIN m) \cup {key} |-> IF k = key THEN value ELSE m[k]]

\* the test without its pts == 0 half
SkipRowOnlyMissing(pts) == is_na(pts)

\* if (is.na(pts) || pts == 0) next
SkipRow(pts) == is_na(pts) \/ pts.v = 0

\* the loop over the rows for one register: total_patients and per_practice
RECURSIVE RowLoop(_, _, _, _)
RowLoop(rows, i, base_name, acc) ==
    IF i > Len(rows) THEN acc
    ELSE LET row == rows[i]
             pts == RNum(SumNaRm(row, ColumnsOf(patient_cols, base_name)))
         IN  IF SkipRow(pts) THEN RowLoop(rows, i + 1, base_name, acc)
             ELSE RowLoop(rows, i + 1, base_name,
                    [total_patients |-> acc.total_patients + pts.v,
                     per_practice |->
                        Assign(acc.per_practice, row.pid,
                               [patients |-> as_integer(pts),
                                prevalence_per_1000 |->
                                    MeanNaRm(row, ColumnsOf(prev_cols, base_name)),
                                prevalence_over50_per_1000 |->
                                    MeanNaRm(row, ColumnsOf(subset_cols, base_name))])])

\* sum(as.numeric(prevalence_df$<column>), na.rm = TRUE)
RECURSIVE ColumnTotal(_, _, _)
ColumnTotal(rows, cn, i) ==
    IF i > Len(rows) THEN 0
    ELSE SumNaRm(rows[i], <<cn>>) + ColumnTotal(rows, cn, i + 1)

TargetPopulation == <<"Target population size", "|", "50+">>

population_50_total(rows) ==
    IF \E j \in 1..Len(ColumnNames) : ColumnNames[j] = TargetPopulation
    THEN RNum(ColumnTotal(rows, TargetPopulation, 1)) ELSE NA

\* total / population * 1000, kept as a fraction; NA without a population
Rate(total, population) ==
    IF ~is_na(population) /\ population.v > 0
    THEN RNum([num |-> total * 1000, den |-> population.v]) ELSE NA

\* ------------------------------------------------------------------------
\* Inputs of the aggregation
\* ------------------------------------------------------------------------
NumRows == 2   \* rows of Table 5a left after the row filter

InputPids == {1, 2}
CountCells == {NA, RNum(0), RNum(2)}

InputRow(pid, stroke, stroke1, asthma) ==
    [pid |-> pid,
     cells |-> [cn \in {ColumnNames[j] : j \in 3..Len(ColumnNames)}
                       \cup {<<"Practice List Size">>} |->
                  CASE cn = <<"Practice List Size">>     -> RNum(1000 * pid)
                    [] cn = <<NPR, "|", "Stroke">>       -> stroke
                    [] cn = <<NPR, "|", "Stroke", ".1">> -> stroke1
                    [] cn = <<NPR, "|", "Asthma", " 17+">> -> asthma
                    [] cn = <<PFL, "|", "Stroke">>       -> IF pid = 1 THEN RNum(12) ELSE NA
                    [] cn = <<PFL, "|", "Asthma", " 17+">> -> RNum(7)
                    [] OTHER                             -> IF pid = 2 THEN RNum(30) ELSE NA]]

InputRows ==
    {InputRow(pid, a, b, c) :
        pid \in InputPids, a \in CountCells, b \in {NA, RNum(2)}, c \in {NA, RNum(2)}}

\* Table 4: practice 2 is missing from the second sheet
PracticeSheets ==
    { << [id |-> 1, PracticeName |-> "P1", Postcode |-> <<"BT1", " ">>],
         [id |-> 2, PracticeName |-> "P2", Postcode |-> <<"BT9">>] >>,
      << [id |-> 1, PracticeName |-> "P1", Postcode |-> <<"BT2">>] >> }

\* BT postcodes.csv
postcode_csv ==
    << [Postcode |-> <<" ", "BT1">>, Latitude |-> RNum(54), Longitude |-> RNum(-6)],
       [Postcode |-> <<"BT1">>,      Latitude |-> RNum(55), Longitude |-> RNum(-7)],
       [Postcode |-> <<"BT2">>,      Latitude |-> NA,       Longitude |-> RNum(-6)] >>

\* mutate(str_trim), filter(!is.na(Latitude) & !is.na(Longitude)), distinct(Postcode)
postcode_df ==
    LET trimmed  == [i \in 1..Len(postcode_csv) |->
                       [postcode_csv[i] EXCEPT !.Postcode = str_trim(@)]]
        located  == SelectSeq(trimmed, LAMBDA r : ~is_na(r.Latitude) /\ ~is_na(r.Longitude))
        codes    == [i \in 1..Len(located) |-> located[i].Postcode]
        first    == Which([i \in 1..Len(codes) |-> ~duplicated(codes)[i]], 1)
    IN  [k \in 1..Len(first) |-> located[first[k]]]

\* left_join(postcode_df, by = "Postcode") for one practice row
Joined(row) ==
    LET code  == str_trim(row.Postcode)
        match == {i \in 1..Len(postcode_df) : postcode_df[i].Postcode = code}
    IN  IF match = {}
        THEN [id |-> row.id, PracticeName |-> row.PracticeName,
              Latitude |-> NA, Longitude |-> NA]
        ELSE LET m == postcode_df[CHOOSE i \in match : TRUE]
             IN  [id |-> row.id, PracticeName |-> row.PracticeName,
                  Latitude |-> m.Latitude, Longitude |-> m.Longitude]

RECURSIVE PracticeInfoLoop(_, _, _)
PracticeInfoLoop(sheet, i, acc) ==
    IF i > Len(sheet) THEN acc
    ELSE LET row == Joined(sheet[i])
         IN  PracticeInfoLoop(sheet, i + 1,
                Assign(acc, row.id,
                       [name |-> row.PracticeName,
                        latitude  |-> IF ~is_na(row.Latitude) THEN row.Latitude ELSE NA,
                        longitude |-> IF ~is_na(row.Longitude) THEN row.Longitude ELSE NA]))

\* write_json: NA is written as null
ToJSON(x) == IF is_na(x) THEN Null ELSE Num(x.v)

JSONRecord(r) == [f \in DOMAIN r |-> ToJSON(r[f])]

\* ------------------------------------------------------------------------
\* Steps of the aggregation
\* ------------------------------------------------------------------------
EmptyList == [k \in {} |-> NA]

InitAggregate ==
    /\ apc = "loop"
    /\ prevalence_df \in [1..NumRows -> InputRows]
    /\ practice_details \in PracticeSheets
    /\ todo = unique([j \in 1..Len(patient_cols) |-> BaseName(patient_cols[j])])
    /\ condition_data = EmptyList
    /\ condition_totals = EmptyList
    /\ practice_info = EmptyList
    /\ output = EmptyList
    /\ DashIdle
    /\ HeadIdle

\* one pass of for (base_name in unique(unlist(patient_map)))
AggregateRegister ==
    /\ apc = "loop"
    /\ todo # <<>>
    /\ LET base_name == Head(todo)
           done == RowLoop(prevalence_df, 1, base_name,
                           [total_patients |-> 0, per_practice |-> EmptyList])
           population_total == RNum(ColumnTotal(prevalence_df, <<"Practice List Size">>, 1))
       IN  /\ condition_data' = Assign(condition_data, base_name, done.per_practice)
           /\ condition_totals' =
                Assign(condition_totals, base_name,
                       [total_patients |-> as_integer(RNum(done.total_patients)),
                        prevalence_per_1000 |->
                            Rate(done.total_patients, population_total),
                        prevalence_over50_per_1000 |->
                            Rate(done.total_patients, population_50_total(prevalence_df))])
    /\ todo' = Tail(todo)
    /\ UNCHANGED <<apc, prevalence_df, practice_details, practice_info, output>>

\* lines 199-214
BuildPracticeInfo ==
    /\ apc = "loop"
    /\ todo = <<>>
    /\ apc' = "info"
    /\ practice_info' = PracticeInfoLoop(practice_details, 1, EmptyList)
    /\ UNCHANGED <<prevalence_df, practice_details, todo, condition_data,
                   condition_totals, output>>

\* lines 217-224
WriteOutput ==
    /\ apc = "info"
    /\ apc' = "written"
    /\ output' =
         [practice_info |->
              [p \in DOMAIN practice_info |->
                  [name |-> practice_info[p].name,
                   latitude |-> ToJSON(practice_info[p].latitude),
                   longitude |-> ToJSON(practice_info[p].longitude)]],
          condition_totals |->
              [c \in DOMAIN condition_totals |-> JSONRecord(condition_totals[c])],
          condition_data |->
              [c \in DOMAIN condition_data |->
                  [p \in DOMAIN condition_data[c] |-> JSONRecord(condition_data[c][p])]]]
    /\ UNCHANGED <<prevalence_df, practice_details, todo, condition_data,
                   condition_totals, practice_info>>

NextAggregate ==
    \/ /\ AggregateRegister
       /\ UNCHANGED <<dashVars, stepVars, headVars>>
    \/ /\ BuildPracticeInfo
       /\ UNCHANGED <<dashVars, stepVars, headVars>>
    \/ /\ WriteOutput
       /\ UNCHANGED <<dashVars, stepVars, headVars>>

SpecAggregate == InitAggregate /\ [][NextAggregate]_vars

\* ------------------------------------------------------------------------
\* Properties of the emitted dataset
\* ------------------------------------------------------------------------
\* C2: every practice id that is a key of condition_data[C] is a key of
\* practice_info in the emitted dataset.
C2_ConditionKeysAreInDirectory ==
    apc = "written" =>
        \A c \in DOMAIN output.condition_data :
            DOMAIN output.condition_data[c] \subseteq DOMAIN output.practice_info

RECURSIVE SumOfStoredPatients(_, _)
SumOfStoredPatients(m, S) ==
    IF S = {} THEN 0
    ELSE LET p == CHOOSE x \in S : TRUE
         IN  m[p].patients.v + SumOfStoredPatients(m, S \ {p})

\* C8: condition_totals[C].total_patients is the sum of the stored patients
\* of the practices that are keys of condition_data[C].
C8_TotalIsSumOfStoredPatients ==
    apc = "written" =>
        \A c \in DOMAIN output.condition_totals :
            output.condition_totals[c].total_patients.v =
                SumOfStoredPatients(output.condition_data[c], DOMAIN output.condition_data[c])

\* the patient-count cells of a row that belong to a condition
CountCellsOf(row, c) ==
    {cn \in DOMAIN row.cells :
        /\ cn[1] = NPR
        /\ cn[3] = c[1]
        /\ ~is_na(row.cells[cn])}

RECURSIVE SumCells(_, _)
SumCells(row, S) ==
    IF S = {} THEN 0
    ELSE LET cn == CHOOSE x \in S : TRUE
         IN  row.cells[cn].v + SumCells(row, S \ {cn})

RowCount(i, c) == SumCells(prevalence_df[i], CountCellsOf(prevalence_df[i], c))

\* C9: a stored patients value is > 0 and is the summed count of a row of
\* that practice; a practice whose rows all sum to zero, or have only
\* missing counts, is absent from the mapping.
C9_StoredPatientsArePositive ==
    \A c \in DOMAIN condition_data :
        /\ \A p \in DOMAIN condition_data[c] :
               /\ ~is_na(condition_data[c][p].patients)
               /\ condition_data[c][p].patients.v > 0
               /\ \E i \in 1..Len(prevalence_df) :
                      /\ prevalence_df[i].pid = p
                      /\ RowCount(i, c) = condition_data[c][p].patients.v
               /\ apc = "written" =>
                      /\ output.condition_data[c][p].patients.t = "number"
                      /\ output.condition_data[c][p].patients.v > 0
        /\ \A p \in InputPids :
               (\A i \in 1..Len(prevalence_df) :
                    prevalence_df[i].pid = p => RowCount(i, c) = 0)
                   => p \notin DOMAIN condition_data[c]

C9_Witness ==
    /\ apc = "written"
    /\ \E c \in DOMAIN condition_data :
           /\ \E i \in 1..Len(prevalence_df) :
                  /\ RowCount(i, c) = 0
                  /\ \E cn \in CountCellsOf(prevalence_df[i], c) : TRUE
                  /\ prevalence_df[i].pid \notin DOMAIN condition_data[c]
           /\ \E i \in 1..Len(prevalence_df) :
                  /\ CountCellsOf(prevalence_df[i], c) = {}
                  /\ prevalence_df[i].pid \notin DOMAIN condition_data[c]
           /\ \E c2 \in DOMAIN condition_data : condition_data[c2] # EmptyList

\* ========================================================================
\* The R script: role classification of the columns (lines 84-89)
\* ========================================================================
RoleCategories == {NPR, PFL, PSS}
RoleRegisters == {<<"Stroke">>, <<"subset">>, <<"Prevalence", " ", "subset">>}

\* canonical names a normalised sheet can carry
RoleNames ==
    {<<c, "|">> \o r : c \in RoleCategories, r \in RoleRegisters}
        \cup {<<"Practice Id">>}

InitRoles ==
    /\ hpc = "filtered"
    /\ header_rows = <<>>
    /\ colnames \in {f \in [1..NumCols -> RoleNames] :
                        \A i, j \in 1..NumCols : i # j => f[i] # f[j]}
    /\ keptCols = [j \in 1..NumCols |-> j]
    /\ roles = <<>>
    /\ DashIdle
    /\ AggIdle

\* patient_cols <- ..., prev_cols <- ..., subset_cols <- ...
ClassifyColumns ==
    /\ hpc = "filtered"
    /\ hpc' = "classified"
    /\ roles' = [patient_cols |-> PatientCols(colnames),
                 prev_cols    |-> PrevCols(colnames),
                 subset_cols  |-> SubsetCols(colnames)]
    /\ UNCHANGED <<header_rows, colnames, keptCols>>

NextRoles ==
    /\ ClassifyColumns
    /\ UNCHANGED <<dashVars, stepVars, aggVars>>

SpecRoles == InitRoles /\ [][NextRoles]_vars

\* ------------------------------------------------------------------------
\* Properties of the role classification
\* ------------------------------------------------------------------------
Members(cols) == {cols[k] : k \in 1..Len(cols)}

\* the part of a canonical name before its first bar
CategoryPortion(name) ==
    LET bars == {i \in 1..Len(name) : name[i] = "|"}
    IN  IF bars = {} THEN name
        ELSE SubSeq(name, 1, (CHOOSE i \in bars : \A k \in bars : i <= k) - 1)

RolesOf(name) ==
    {r \in {"patient_cols", "prev_cols", "subset_cols"} : name \in Members(roles[r])}

\* C11: patient_cols, prev_cols and subset_cols are pairwise disjoint, and
\* two columns with the same category portion have the same role.
C11_RolesDisjointAndByCategory ==
    hpc = "classified" =>
        /\ Members(roles.patient_cols) \cap Members(roles.prev_cols) = {}
        /\ Members(roles.patient_cols) \cap Members(roles.subset_cols) = {}
        /\ Members(roles.prev_cols) \cap Members(roles.subset_cols) = {}
        /\ \A m, n \in Members(colnames) :
               CategoryPortion(m) = CategoryPortion(n) => RolesOf(m) = RolesOf(n)

====
